---- MODULE Spec2Model ----
(***************************************************************************)
(* A model of rmgpy/rmg/main.py: the RMG job controller RMG.execute with   *)
(* its checkpoint routines loadRestartFile and saveRestartFile.            *)
(*                                                                         *)
(* The reaction model (rmgpy/rmg/model.py), the reaction systems           *)
(* (rmgpy/solver) and the pressure-dependent networks (rmgpy/rmg/pdep.py)  *)
(* are collaborators whose code is not part of main.py; they are modelled  *)
(* from their documented contract and kept apart from the controller.      *)
(***************************************************************************)
EXTENDS Integers, Sequences, FiniteSets, TLC

(***************************************************************************)
(* Bounds of the model.                                                    *)
(***************************************************************************)
NSpecies == 4
NSystems == 2

Species == 1..NSpecies
Systems == 1..NSystems

(***************************************************************************)
(* The job's input file: the initial species (species 1 is the inert bath  *)
(* gas, species 2 the reactive one), the seed mechanisms and the reaction  *)
(* libraries, each of these given by the species it brings (the seed       *)
(* mechanism holds the bath gas, the library species 3).                   *)
(***************************************************************************)
initialSpecies == << [spec |-> 1, reactive |-> FALSE], [spec |-> 2, reactive |-> TRUE] >>
Reactive == Species \ {1}
SeedMechanismInputs == { << {1} >> }
ReactionLibraryInputs == { << {3} >> }
\* the separator of the fields of a wall time
Colon == ":"
\* the largest number of fields a wall time is given with
MaxFields == 5
\* a text is the sequence of its characters; the fields a wall time is made of
FieldTexts == { <<"0">>, <<"1", "8">>, <<"x">>, << >> }

RECURSIVE join(_, _)
\* sep.join(fields)
join(sep, fields) ==
    IF Len(fields) = 1 THEN fields[1]
    ELSE fields[1] \o << sep >> \o join(sep, Tail(fields))

WallTimeTexts ==
    { join(Colon, fields) : fields \in UNION { [1..n -> FieldTexts] : n \in 1..MaxFields } }
\* args.walltime: the text '0' when the option is not given, otherwise the list
\* of the one text that was given (main.py:225 and 228)
DefaultWallTime == [kind |-> "str", text |-> << "0" >>]
GivenWallTime(text) == [kind |-> "list", text |-> text]
\* the wall times the main loop is run with: none, 18 seconds, and a text that
\* is not a wall time
WallTimes == { DefaultWallTime, GivenWallTime(<< "1", "8" >>), GivenWallTime(<< "1", "8", Colon >>) }
\* every process parses its wall time; the texts of WallTimeTexts are given to
\* processes started with the restart option, which end at the load
CommandLines ==
    [restart : BOOLEAN, walltime : WallTimes]
        \cup [restart : {TRUE}, walltime : {GivenWallTime(t) : t \in WallTimeTexts}]
\* self.saveRestartPeriod: None, or a period in seconds
NoPeriod == [given |-> FALSE, value |-> 0]
Period(v) == [given |-> TRUE, value |-> v]
SaveRestartPeriods == {NoPeriod, Period(10)}
\* the time one iteration of the main loop may take
IterationDurations == {2, 10}

Min(S) == CHOOSE x \in S : \A y \in S : x <= y
Max(S) == CHOOSE x \in S : \A y \in S : x >= y
Last(s) == s[Len(s)]
Range(s) == {s[i] : i \in 1..Len(s)}

(***************************************************************************)
(* Flagged objects: what simulate returns and what enlarge is given.       *)
(***************************************************************************)
None == [type |-> "None", net |-> 0, spec |-> 0]
SpeciesObj(s) == [type |-> "Species", net |-> 0, spec |-> s]
PDepNetwork(n) == [type |-> "PDepNetwork", net |-> n, spec |-> 0]
\* the tuple (network, leak species) built at main.py:327
NetworkLeak(n, s) == [type |-> "tuple", net |-> n, spec |-> s]
\* an object that is true in `if obj:` (main.py:322) and is neither a Species
\* nor a PDepNetwork
Other == [type |-> "Other", net |-> 0, spec |-> 0]

(***************************************************************************)
(* Reaction families and reactions.  A family object is known by its label *)
(* and by where it lives: in the database this job loaded, or in the       *)
(* object graph that unpickling a checkpoint created.                      *)
(***************************************************************************)
FamilyLabels == {"H_Abstraction", "Disproportionation"}
Family(l, where) == [label |-> l, id |-> where]
NoFamily == [label |-> "None", id |-> "None"]
DatabaseFamilies == {Family(l, "database") : l \in FamilyLabels}
\* rmgpy.data.kinetics.kineticsDatabases of a process: the families of the
\* database it loaded, which may lack a family a checkpoint was made with
Databases == {DatabaseFamilies, {Family("H_Abstraction", "database")}}

LabelOf(r) == IF (Min(r) + Max(r)) % 2 = 0 THEN "H_Abstraction" ELSE "Disproportionation"
\* H_Abstraction is its own reverse: its reactions carry a reverse reaction
HasReverse(r) == LabelOf(r) = "H_Abstraction"
Reaction(r, where) ==
    [reactants |-> r,
     family |-> Family(LabelOf(r), where),
     reverse |-> IF HasReverse(r) THEN Family(LabelOf(r), where) ELSE NoFamily]

(***************************************************************************)
(* The core-edge reaction model.                                           *)
(***************************************************************************)
EmptyModel == [core |-> {}, edge |-> {}]

\* reactions generated so far: a reactive core species against a reactive
\* species of the core or the edge
GeneratedReactions(m) ==
    {r \in SUBSET ((m.core \cup m.edge) \cap Reactive) :
        Cardinality(r) = 2 /\ r \cap m.core # {}}
CoreReactions(m) == {r \in GeneratedReactions(m) : r \subseteq m.core}
EdgeReactions(m) == GeneratedReactions(m) \ CoreReactions(m)

getModelSize(m) ==
    << Cardinality(m.core), Cardinality(CoreReactions(m)),
       Cardinality(m.edge), Cardinality(EdgeReactions(m)) >>

\* reactionModel.reactionDict, flattened to family -> reactions
ReactionDict(m, where) ==
    [f \in {Family(LabelOf(r), where) : r \in GeneratedReactions(m)} |->
        {Reaction(r, where) : r \in {q \in GeneratedReactions(m) : LabelOf(q) = f.label}}]

enlarge_NoPromotion(m, obj, found) == m
enlarge_LosesEdge(m, obj, found) ==
    IF obj.spec \in m.core THEN m
    ELSE [core |-> m.core \cup {obj.spec}, edge |-> found]
\* enlarge(object): promote the object's species to the core; `found` are the
\* new species that reaction generation puts on the edge
enlarge(m, obj, found) ==
    IF obj.spec \in m.core THEN m
    ELSE [core |-> m.core \cup {obj.spec},
          edge |-> (m.edge \ {obj.spec}) \cup found]
Discoverable(m, obj) ==
    IF obj.spec \in m.core \/ obj.spec \notin Reactive THEN {{}}
    ELSE SUBSET (Species \ (m.core \cup m.edge \cup {obj.spec}))

\* prune(...): remove the edge species in `removed`
prune(m, removed) == [core |-> m.core, edge |-> m.edge \ removed]

addSeedMechanismToCore(m, seed) == [core |-> m.core \cup seed, edge |-> m.edge \ seed]
addReactionLibraryToEdge(m, library) == [core |-> m.core, edge |-> m.edge \cup (library \ m.core)]

\* PDepNetwork.getMaximumLeakSpecies(T, P): the edge species with the highest
\* leak rate at the conditions of reaction system i
getMaximumLeakSpecies(m, i) == IF i % 2 = 1 THEN Min(m.edge) ELSE Max(m.edge)

(***************************************************************************)
(* Files of the output directory.  cPickle.dump writes the object graph,   *)
(* cPickle.load builds a new one: the species partition comes back equal,  *)
(* the family objects come back as copies that are not the database's.     *)
(***************************************************************************)
Pickle(m) == [format |-> "pickle", core |-> m.core, edge |-> m.edge]
NoContent == [format |-> "none", core |-> {}, edge |-> {}]
Unpickle(b) ==
    [core |-> b.core, edge |-> b.edge,
     reactionDict |-> ReactionDict([core |-> b.core, edge |-> b.edge], "pickled")]
NoFile == [exists |-> FALSE, content |-> NoContent, mtime |-> 0]
FileSize(f) == 1 + Cardinality(f.content.core) + Cardinality(f.content.edge)
Paths == {"restart.pkl", "restart.pkl.gz"}

(***************************************************************************)
(* Species objects.  The input file creates a species object for every     *)
(* species it names; the termination criteria and the initial mole         *)
(* fractions of the reaction systems refer to these objects.  A restored   *)
(* reaction model owns species objects of its own.                         *)
(***************************************************************************)
InputSpecies(s) == [spec |-> s, owner |-> "input"]
ModelSpecies(s) == [spec |-> s, owner |-> "model"]
\* reactionModel.makeNewSpecies(molecule, label, reactive): the model's species
\* with that structure, label and reactivity
makeNewSpecies(rm, spec0) == ModelSpecies(spec0.spec)
\* self.termination: the species of the TerminationConversion criteria
termination == {InputSpecies(2)}
\* reactionSystem.initialMoleFractions, in percent, of each reaction system
initialMoleFractions ==
    [i \in Systems |->
        [spec0 \in {InputSpecies(1), InputSpecies(2)} |->
            IF spec0.spec = 1 THEN 90 - i ELSE 10 + i]]

VARIABLES
    pc,                 \* where execute is
    error,              \* the exception that ended execute, or "None"
    args,               \* the command line: restart, walltime
    input,              \* the input file: seedMechanisms, reactionLibraries, saveRestartPeriod
    database,           \* the reaction families of the database the process loaded
    reactionModel,      \* self.reactionModel
    thermo,             \* the species whose thermo data has been generated
    k,                  \* the index of the for loop execute is in
    disk,               \* the files restart.pkl and restart.pkl.gz
    now,                \* time.time() - self.initializationTime
    wallTime,           \* self.wallTime
    done,
    allTerminated,
    objectsToEnlarge,
    execTime,
    coreSpeciesCount,
    coreReactionCount,
    edgeSpeciesCount,
    edgeReactionCount,
    memoryUse,
    restartSize,
    loaded,             \* what loadRestartFile built
    snapshot,           \* history: the reaction model when the iteration began
    log,                \* history: the calls of the current iteration, in order
    stopping            \* history: the wall-time branch (main.py:408) was taken

statistics == << execTime, coreSpeciesCount, coreReactionCount, edgeSpeciesCount,
                 edgeReactionCount, memoryUse, restartSize >>
loopVars == << done, allTerminated, objectsToEnlarge >>
vars == << pc, error, args, input, database, reactionModel, thermo, k, disk, now, wallTime,
           loopVars, statistics, loaded, snapshot, log, stopping >>

NotLoaded == [status |-> "not called"]

Call(op, sys, terminated, obj) == [op |-> op, sys |-> sys, terminated |-> terminated, obj |-> obj]

\* RMG.__init__, RMG.clear and loadInput: a new process, the files of the
\* output directory are what they are
NewProcess ==
    /\ pc = "start"
    /\ error = "None"
    /\ args \in CommandLines
    /\ input \in [seedMechanisms : SeedMechanismInputs,
                  reactionLibraries : ReactionLibraryInputs,
                  saveRestartPeriod : SaveRestartPeriods]
    /\ database \in (IF args.restart THEN Databases ELSE {DatabaseFamilies})
    /\ reactionModel = EmptyModel
    /\ thermo = {}
    /\ k = 1
    /\ now = 0
    /\ wallTime = 0
    /\ done = FALSE
    /\ allTerminated = TRUE
    /\ objectsToEnlarge = << >>
    /\ execTime = << >>
    /\ coreSpeciesCount = << >>
    /\ coreReactionCount = << >>
    /\ edgeSpeciesCount = << >>
    /\ edgeReactionCount = << >>
    /\ memoryUse = << >>
    /\ restartSize = << >>
    /\ loaded = NotLoaded
    /\ snapshot = EmptyModel
    /\ log = << >>
    /\ stopping = FALSE

Init ==
    /\ NewProcess
    /\ disk = [p \in Paths |-> NoFile]

(***************************************************************************)
(* Names.  A name that a function body reads and that is bound neither in  *)
(* the function nor at module level raises NameError when it is read.      *)
(***************************************************************************)
ModuleGlobals == {"os", "sys", "logging", "time", "shutil", "RMGDatabase", "Species",
                  "PDepNetwork", "RMG", "initializeLog", "Tee", "processProfileStats",
                  "makeProfileGraph"}
ExecuteLocals == {"self", "args", "psutil", "xlwt", "data", "saveOutputHTML", "seedMechanism",
                  "library", "option", "spec", "coreSpeciesCount", "coreReactionCount",
                  "edgeSpeciesCount", "edgeReactionCount", "execTime", "restartSize",
                  "memoryUse", "done", "workbook", "objectsToEnlarge", "allTerminated",
                  "index", "reactionSystem", "worksheet", "terminated", "obj", "object",
                  "this_chemkin_path", "latest_chemkin_path", "latest_dictionary_path",
                  "coreSpec", "coreReac", "edgeSpec", "edgeReac", "process", "rss", "vms",
                  "t", "dt"}
LoadRestartLocals == {"self", "path", "cPickle", "f", "reactionModel", "TerminationConversion",
                      "term", "isNew", "reactionSystem", "initialMoleFractions", "spec0",
                      "moleFrac", "spec", "reactionDict", "family0", "rmgpy", "family",
                      "kineticsDatabase", "label", "fam", "reactant1", "reactant2", "rxn"}
Bound(name, locals) == name \in locals \cup ModuleGlobals

(***************************************************************************)
(* saveRestartFile(path, reactionModel, delay)                             *)
(***************************************************************************)
SkipSave_AtDelay(d, path, t, delay) == d[path].exists /\ t - d[path].mtime <= delay
\* main.py:552: the file exists and is younger than delay
SkipSave(d, path, t, delay) == d[path].exists /\ t - d[path].mtime < delay
saveRestartFile(d, path, m, t, delay) ==
    IF SkipSave(d, path, t, delay) THEN d
    ELSE [d EXCEPT ![path] = [exists |-> TRUE, content |-> Pickle(m), mtime |-> t]]

(***************************************************************************)
(* loadRestartFile(path)                                                   *)
(***************************************************************************)
\* main.py:508-524: the family of the loaded database with family0's label
MatchingFamily(family0) ==
    IF \E f \in database : f.label = family0.label
    THEN CHOOSE f \in database : f.label = family0.label
    ELSE NoFamily

\* main.py:526-536 for one reaction: rxn.family = family; rxn.reverse.family = family
Repoint(rxn, family) ==
    [reactants |-> rxn.reactants, family |-> family,
     reverse |-> IF rxn.reverse = NoFamily THEN NoFamily ELSE family]

\* main.py:506-536: the reactions are updated in place, and the index built
\* under the new keys is the local reactionDict
RepointFamilies(rm) ==
    LET keys == DOMAIN rm.reactionDict IN
    IF \E family0 \in keys : MatchingFamily(family0) = NoFamily
    THEN [status |-> "Exception", reactionModel |-> rm, reactionDict |-> << >>]
    ELSE IF \E family0 \in keys : \E rxn \in rm.reactionDict[family0] : rxn.reverse = NoFamily
    THEN [status |-> "AttributeError", reactionModel |-> rm, reactionDict |-> << >>]
    ELSE [status |-> "ok",
          reactionModel |->
             [rm EXCEPT !.reactionDict =
                [family0 \in keys |->
                    {Repoint(rxn, MatchingFamily(family0)) : rxn \in rm.reactionDict[family0]}]],
          reactionDict |->
             [family \in {MatchingFamily(family0) : family0 \in keys} |->
                {Repoint(rxn, family) : rxn \in
                    UNION {rm.reactionDict[family0] :
                             family0 \in {g \in keys : MatchingFamily(g) = family}}}]]

\* main.py:500-504 for one reaction system
RebuildMoleFractions(rm, fractions) ==
    [spec \in {makeNewSpecies(rm, spec0) : spec0 \in DOMAIN fractions} |->
        fractions[CHOOSE spec0 \in DOMAIN fractions : makeNewSpecies(rm, spec0) = spec]]

\* main.py:494-496 walks reactionModel.termination, the criteria held by the
\* unpickled model; the criteria of the job, self.termination, are the ones
\* execute gives to simulate (main.py:311), and are left as they are
loadRestartFile(d, path) ==
    IF ~d[path].exists
    THEN [status |-> "IOError"]
    ELSE LET rm == Unpickle(d[path].content) IN
         \* main.py:499 reads the name reactionSystems
         IF ~Bound("reactionSystems", LoadRestartLocals)
         THEN [status |-> "NameError", reactionModel |-> rm, reactionDict |-> << >>,
               termination |-> termination,
               initialMoleFractions |-> initialMoleFractions]
         ELSE LET r == RepointFamilies(rm) IN
              [status |-> r.status, reactionModel |-> r.reactionModel,
               reactionDict |-> r.reactionDict,
               termination |-> termination,
               initialMoleFractions |->
                  [i \in Systems |-> RebuildMoleFractions(rm, initialMoleFractions[i])]]

(***************************************************************************)
(* RMG.execute, before the main loop                                       *)
(***************************************************************************)
RECURSIVE AddSeedMechanisms(_, _)
AddSeedMechanisms(m, seeds) ==
    IF seeds = << >> THEN m
    ELSE AddSeedMechanisms(addSeedMechanismToCore(m, Head(seeds)), Tail(seeds))

RECURSIVE AddReactionLibraries(_, _)
AddReactionLibraries(m, libraries) ==
    IF libraries = << >> THEN m
    ELSE AddReactionLibraries(addReactionLibraryToEdge(m, Head(libraries)), Tail(libraries))

processVars == << args, input, database >>

DigitChars == << "0", "1", "2", "3", "4", "5", "6", "7", "8", "9" >>
DigitValue(c) == (CHOOSE d \in 1..10 : DigitChars[d] = c) - 1

\* int(text) of a text without sign, blank or underscore: such a text is an
\* integer when it has a character and all its characters are digits
IsInt(text) == Len(text) > 0 /\ \A i \in 1..Len(text) : text[i] \in Range(DigitChars)

RECURSIVE int(_)
int(text) ==
    IF Len(text) = 0 THEN 0
    ELSE 10 * int(SubSeq(text, 1, Len(text) - 1)) + DigitValue(text[Len(text)])

RECURSIVE split(_, _)
\* text.split(sep): the texts between the separators, at least one
split(text, sep) ==
    IF \A i \in 1..Len(text) : text[i] # sep THEN << text >>
    ELSE LET i == Min({j \in 1..Len(text) : text[j] = sep}) IN
         << SubSeq(text, 1, i - 1) >> \o split(SubSeq(text, i + 1, Len(text)), sep)

Parsed(v) == [ok |-> TRUE, value |-> v]
ValueError == [ok |-> FALSE, value |-> 0]

\* main.py:225-238, data[-1] being data[n]
ParseWallTime_LeftToRight(walltime) ==
    IF walltime = DefaultWallTime THEN Parsed(0)
    ELSE LET data == split(walltime.text, Colon)
             n == Len(data)
         IN  IF n > 4 \/ \E i \in 1..n : ~IsInt(data[i]) THEN ValueError
             ELSE IF n = 1 THEN Parsed(int(data[1]))
             ELSE IF n = 2 THEN Parsed(int(data[1]) + 60 * int(data[2]))
             ELSE IF n = 3 THEN Parsed(int(data[1]) + 60 * int(data[2]) + 3600 * int(data[3]))
             ELSE Parsed(int(data[1]) + 60 * int(data[2]) + 3600 * int(data[3])
                             + 86400 * int(data[4]))

ParseWallTime(walltime) ==
    IF walltime = DefaultWallTime THEN Parsed(0)
    ELSE LET data == split(walltime.text, Colon)
             n == Len(data)
         IN  IF n = 1 THEN
                 IF IsInt(data[n]) THEN Parsed(int(data[n])) ELSE ValueError
             ELSE IF n = 2 THEN
                 IF IsInt(data[n]) /\ IsInt(data[n-1])
                 THEN Parsed(int(data[n]) + 60 * int(data[n-1])) ELSE ValueError
             ELSE IF n = 3 THEN
                 IF IsInt(data[n]) /\ IsInt(data[n-1]) /\ IsInt(data[n-2])
                 THEN Parsed(int(data[n]) + 60 * int(data[n-1]) + 3600 * int(data[n-2]))
                 ELSE ValueError
             ELSE IF n = 4 THEN
                 IF IsInt(data[n]) /\ IsInt(data[n-1]) /\ IsInt(data[n-2]) /\ IsInt(data[n-3])
                 THEN Parsed(int(data[n]) + 60 * int(data[n-1]) + 3600 * int(data[n-2])
                                 + 86400 * int(data[n-3]))
                 ELSE ValueError
             ELSE ValueError

SetWallTime_IgnoresError ==
    /\ pc = "start"
    /\ wallTime' = ParseWallTime(args.walltime).value
    /\ pc' = "init"
    /\ UNCHANGED << error, processVars, reactionModel, thermo, k, disk, now, loopVars,
                    statistics, loaded, snapshot, log, stopping >>

\* main.py:224-238: an exception leaves execute before self.wallTime is assigned
SetWallTime ==
    /\ pc = "start"
    /\ LET parsed == ParseWallTime(args.walltime) IN
        IF parsed.ok
        THEN /\ wallTime' = parsed.value
             /\ pc' = "init"
             /\ error' = error
        ELSE /\ wallTime' = wallTime
             /\ pc' = "failed"
             /\ error' = "ValueError"
    /\ UNCHANGED << processVars, reactionModel, thermo, k, disk, now, loopVars,
                    statistics, loaded, snapshot, log, stopping >>

LoadRestart_IgnoresFailure ==
    /\ pc = "init"
    /\ args.restart
    /\ loaded' = loadRestartFile(disk, "restart.pkl.gz")
    /\ pc' = "loop"
    /\ UNCHANGED << error, processVars, reactionModel, thermo, k, disk, now, wallTime, loopVars,
                    statistics, snapshot, log, stopping >>
\* main.py:245-246: the value loadRestartFile returns is not used
LoadRestart ==
    /\ pc = "init"
    /\ args.restart
    /\ LET r == loadRestartFile(disk, "restart.pkl.gz") IN
        /\ loaded' = r
        /\ error' = IF r.status = "ok" THEN "None" ELSE r.status
        /\ pc' = IF r.status = "ok" THEN "loop" ELSE "failed"
    /\ UNCHANGED << processVars, reactionModel, thermo, k, disk, now, wallTime, loopVars,
                    statistics, snapshot, log, stopping >>

SeedMechanisms_AlsoOnRestart ==
    /\ pc = "init"
    /\ reactionModel' = AddSeedMechanisms(reactionModel, input.seedMechanisms)
    /\ pc' = "libraries"
    /\ UNCHANGED << error, processVars, thermo, k, disk, now, wallTime, loopVars,
                    statistics, loaded, snapshot, log, stopping >>
\* main.py:247-252: the else branch of `if args.restart`
SeedMechanisms ==
    /\ pc = "init"
    /\ ~args.restart
    /\ reactionModel' = AddSeedMechanisms(reactionModel, input.seedMechanisms)
    /\ pc' = "libraries"
    /\ UNCHANGED << error, processVars, thermo, k, disk, now, wallTime, loopVars,
                    statistics, loaded, snapshot, log, stopping >>

\* main.py:256-257
ReactionLibraries ==
    /\ pc = "libraries"
    /\ reactionModel' = AddReactionLibraries(reactionModel, input.reactionLibraries)
    /\ pc' = "inert"
    /\ k' = 1
    /\ UNCHANGED << error, processVars, thermo, disk, now, wallTime, loopVars,
                    statistics, loaded, snapshot, log, stopping >>

EnlargeInert_AnySpecies ==
    /\ pc = "inert"
    /\ k <= Len(initialSpecies)
    /\ reactionModel' = enlarge(reactionModel, SpeciesObj(initialSpecies[k].spec), {})
    /\ k' = k + 1
    /\ UNCHANGED << pc, error, processVars, thermo, disk, now, wallTime, loopVars,
                    statistics, loaded, snapshot, log, stopping >>
\* main.py:261-263, one pass of the for loop
EnlargeInert ==
    /\ pc = "inert"
    /\ k <= Len(initialSpecies)
    /\ reactionModel' = IF ~initialSpecies[k].reactive
                        THEN enlarge(reactionModel, SpeciesObj(initialSpecies[k].spec), {})
                        ELSE reactionModel
    /\ k' = k + 1
    /\ UNCHANGED << pc, error, processVars, thermo, disk, now, wallTime, loopVars,
                    statistics, loaded, snapshot, log, stopping >>

\* main.py:265-266
GenerateThermoData ==
    /\ pc = "inert"
    /\ k > Len(initialSpecies)
    /\ thermo' = thermo \cup {initialSpecies[i].spec : i \in 1..Len(initialSpecies)}
    /\ pc' = "reactive"
    /\ k' = 1
    /\ UNCHANGED << error, processVars, reactionModel, disk, now, wallTime, loopVars,
                    statistics, loaded, snapshot, log, stopping >>

\* main.py:267-269, one pass of the for loop
EnlargeReactive ==
    /\ pc = "reactive"
    /\ k <= Len(initialSpecies)
    /\ LET obj == SpeciesObj(initialSpecies[k].spec) IN
        IF initialSpecies[k].reactive
        THEN \E found \in Discoverable(reactionModel, obj) :
                reactionModel' = enlarge(reactionModel, obj, found)
        ELSE reactionModel' = reactionModel
    /\ k' = k + 1
    /\ UNCHANGED << pc, error, processVars, thermo, disk, now, wallTime, loopVars,
                    statistics, loaded, snapshot, log, stopping >>

SaveInitialRestart_Skipped ==
    /\ pc = "reactive"
    /\ k > Len(initialSpecies)
    /\ pc' = "loop"
    /\ UNCHANGED << error, processVars, reactionModel, thermo, k, disk, now, wallTime, loopVars,
                    statistics, loaded, snapshot, log, stopping >>
\* main.py:271-273: if self.saveRestartPeriod, saveRestartFile with the default delay 0
SaveInitialRestart ==
    /\ pc = "reactive"
    /\ k > Len(initialSpecies)
    /\ disk' = IF input.saveRestartPeriod.given
               THEN saveRestartFile(disk, "restart.pkl", reactionModel, now, 0)
               ELSE disk
    /\ pc' = "loop"
    /\ UNCHANGED << error, processVars, reactionModel, thermo, k, now, wallTime, loopVars,
                    statistics, loaded, snapshot, log, stopping >>

(***************************************************************************)
(* RMG.execute, the main loop                                              *)
(***************************************************************************)
\* what a simulation may flag: nothing, an edge species, or the network
Flaggable(m) ==
    {None} \cup {SpeciesObj(s) : s \in m.edge}
           \cup (IF m.edge # {} THEN {PDepNetwork(1)} ELSE {})

DoneAfter_LastOnly(d, obj) == obj = None
\* main.py:322-329: done after one more simulation returned obj
DoneAfter(d, obj) == IF obj # None THEN FALSE ELSE d

Resolve_AtFirstSystem(m, i, obj) ==
    IF obj.type = "PDepNetwork"
    THEN NetworkLeak(obj.net, getMaximumLeakSpecies(m, 1))
    ELSE obj
\* main.py:323-327: what is appended to objectsToEnlarge for obj
Resolve(m, i, obj) ==
    IF obj.type = "PDepNetwork"
    THEN NetworkLeak(obj.net, getMaximumLeakSpecies(m, i))
    ELSE obj

\* main.py:291-293: the values the for loop over the reaction systems starts from
LoopStart == [done |-> TRUE, allTerminated |-> TRUE, objectsToEnlarge |-> << >>]

RECURSIVE SimulateAll_StopsAtFirstFlag(_, _, _, _)
SimulateAll_StopsAtFirstFlag(m, order, results, acc) ==
    IF order = << >> \/ ~acc.done THEN acc
    ELSE LET i == Head(order) IN
         SimulateAll_StopsAtFirstFlag(m, Tail(order), results,
            [done |-> DoneAfter(acc.done, results[i].obj),
             allTerminated |-> acc.allTerminated /\ results[i].terminated,
             objectsToEnlarge |->
                IF results[i].obj # None
                THEN Append(acc.objectsToEnlarge, Resolve(m, i, results[i].obj))
                ELSE acc.objectsToEnlarge])
\* main.py:294-329: the for loop over the reaction systems, taken in the given
\* order, results[i] being what simulate returns for reaction system i
RECURSIVE SimulateAll(_, _, _, _)
SimulateAll(m, order, results, acc) ==
    IF order = << >> THEN acc
    ELSE LET i == Head(order) IN
         SimulateAll(m, Tail(order), results,
            [done |-> DoneAfter(acc.done, results[i].obj),
             allTerminated |-> acc.allTerminated /\ results[i].terminated,
             objectsToEnlarge |->
                IF results[i].obj # None
                THEN Append(acc.objectsToEnlarge, Resolve(m, i, results[i].obj))
                ELSE acc.objectsToEnlarge])

PruneCondition_Always(allTerm) == TRUE
\* main.py:338
PruneCondition(allTerm) == allTerm

GrowSteps_Swapped == << "enlarge", "prune" >>
\* main.py:334-346: the two steps of the `if not done` block, in order
GrowSteps == << "prune", "enlarge" >>
Phase(p) == IF p = "grow1" THEN GrowSteps[1] ELSE IF p = "grow2" THEN GrowSteps[2] ELSE "none"
NextPhase(p) == IF p = "grow1" THEN "grow2" ELSE "persist"

Dedup_Forgotten(objs) == {objs}
Dedup_SpeciesOnly(objs) ==
    IF \A i \in 1..Len(objs) : objs[i].type = "tuple" THEN {objs}
    ELSE {seq \in [1..Cardinality(Range(objs)) -> Range(objs)] : Range(seq) = Range(objs)}
\* main.py:344: list(set(objectsToEnlarge)), in any of the orders a set may give
Dedup(objs) == {seq \in [1..Cardinality(Range(objs)) -> Range(objs)] : Range(seq) = Range(objs)}

\* main.py:372: if self.saveRestartPeriod or done
SaveCondition(period, d) == period.given \/ d
\* main.py:373: delay = 0 if done else self.saveRestartPeriod.value
SaveDelay_AlwaysPeriod(period, d) == period.value
SaveDelay(period, d) == IF d THEN 0 ELSE period.value

WallTimeStop_AtBudget(w, et) ==
    /\ w > 0
    /\ Len(et) > 1
    /\ et[Len(et)] + 3 * (et[Len(et)] - et[Len(et) - 1]) >= w
\* main.py:405-408
WallTimeStop(w, et) ==
    /\ w > 0
    /\ Len(et) > 1
    /\ et[Len(et)] + 3 * (et[Len(et)] - et[Len(et) - 1]) > w

\* main.py:286-293: the loop condition holds, a new iteration begins
BeginIteration ==
    /\ pc = "loop"
    /\ ~done
    /\ done' = TRUE
    /\ objectsToEnlarge' = << >>
    /\ allTerminated' = TRUE
    /\ k' = 1
    /\ snapshot' = reactionModel
    /\ log' = << >>
    /\ \E d \in IterationDurations : now' = now + d
    /\ pc' = "simulate"
    /\ UNCHANGED << error, processVars, reactionModel, thermo, disk, wallTime,
                    statistics, loaded, stopping >>

Simulate_LastTerminated ==
    /\ pc = "simulate"
    /\ \E terminated \in BOOLEAN, obj \in Flaggable(reactionModel) :
        /\ allTerminated' = terminated
        /\ objectsToEnlarge' = IF obj # None
                               THEN Append(objectsToEnlarge, Resolve(reactionModel, k, obj))
                               ELSE objectsToEnlarge
        /\ done' = DoneAfter(done, obj)
        /\ log' = Append(log, Call("simulate", k, terminated, obj))
        /\ pc' = IF k < NSystems THEN "simulate"
                 ELSE IF DoneAfter(done, obj) THEN "persist" ELSE "grow1"
    /\ k' = IF k < NSystems THEN k + 1 ELSE 0
    /\ UNCHANGED << error, processVars, reactionModel, thermo, disk, now, wallTime,
                    statistics, loaded, snapshot, stopping >>
Simulate_EnlargesAtOnce ==
    /\ pc = "simulate"
    /\ \E terminated \in BOOLEAN, obj \in Flaggable(reactionModel) :
        /\ allTerminated' = (allTerminated /\ terminated)
        /\ objectsToEnlarge' = objectsToEnlarge
        /\ done' = DoneAfter(done, obj)
        /\ reactionModel' = IF obj # None
                            THEN enlarge(reactionModel, Resolve(reactionModel, k, obj), {})
                            ELSE reactionModel
        /\ log' = Append(log, Call("simulate", k, terminated, obj))
        /\ pc' = IF k < NSystems THEN "simulate" ELSE "persist"
    /\ k' = IF k < NSystems THEN k + 1 ELSE 0
    /\ UNCHANGED << error, processVars, thermo, disk, now, wallTime,
                    statistics, loaded, snapshot, stopping >>
\* main.py:294-329, one pass of the for loop over the reaction systems
Simulate ==
    /\ pc = "simulate"
    /\ \E terminated \in BOOLEAN, obj \in Flaggable(reactionModel) :
        /\ allTerminated' = (allTerminated /\ terminated)
        /\ objectsToEnlarge' = IF obj # None
                               THEN Append(objectsToEnlarge, Resolve(reactionModel, k, obj))
                               ELSE objectsToEnlarge
        /\ done' = DoneAfter(done, obj)
        /\ log' = Append(log, Call("simulate", k, terminated, obj))
        /\ pc' = IF k < NSystems THEN "simulate"
                 ELSE IF DoneAfter(done, obj) THEN "persist" ELSE "grow1"
    /\ k' = IF k < NSystems THEN k + 1 ELSE 0
    /\ UNCHANGED << error, processVars, reactionModel, thermo, disk, now, wallTime,
                    statistics, loaded, snapshot, stopping >>

\* main.py:338-339
Prune ==
    /\ Phase(pc) = "prune"
    /\ IF PruneCondition(allTerminated)
       THEN /\ \E removed \in SUBSET reactionModel.edge :
                 reactionModel' = prune(reactionModel, removed)
            /\ log' = Append(log, Call("prune", 0, allTerminated, None))
       ELSE UNCHANGED << reactionModel, log >>
    /\ pc' = NextPhase(pc)
    /\ UNCHANGED << error, processVars, thermo, k, disk, now, wallTime, loopVars,
                    statistics, loaded, snapshot, stopping >>

\* main.py:344-346: one pass of the for loop over list(set(objectsToEnlarge));
\* the list is built on entry (k = 0), in any of the orders a set may give
Enlarge ==
    /\ Phase(pc) = "enlarge"
    /\ \E objects \in (IF k = 0 THEN Dedup(objectsToEnlarge) ELSE {objectsToEnlarge}) :
        LET i == IF k = 0 THEN 1 ELSE k IN
        /\ objects[i] # Other
        /\ objectsToEnlarge' = objects
        /\ \E found \in Discoverable(reactionModel, objects[i]) :
              reactionModel' = enlarge(reactionModel, objects[i], found)
        /\ log' = Append(log, Call("enlarge", 0, allTerminated, objects[i]))
        /\ k' = IF i < Len(objects) THEN i + 1 ELSE 0
        /\ pc' = IF i < Len(objects) THEN pc ELSE NextPhase(pc)
    /\ UNCHANGED << error, processVars, thermo, disk, now, wallTime, done, allTerminated,
                    statistics, loaded, snapshot, stopping >>

\* main.py:348-373: the output files, then the restart file
Persist ==
    /\ pc = "persist"
    /\ IF SaveCondition(input.saveRestartPeriod, done)
       THEN /\ disk' = saveRestartFile(disk, "restart.pkl", reactionModel, now,
                                       SaveDelay(input.saveRestartPeriod, done))
            /\ log' = log \o << Call("saveOutput", 0, allTerminated, None),
                                Call("saveRestartFile", 0, allTerminated, None) >>
       ELSE /\ disk' = disk
            /\ log' = Append(log, Call("saveOutput", 0, allTerminated, None))
    /\ pc' = "statistics"
    /\ UNCHANGED << error, processVars, reactionModel, thermo, k, now, wallTime, loopVars,
                    statistics, loaded, snapshot, stopping >>

UpdateStatistics_BeforeGrowth ==
    /\ pc = "statistics"
    /\ LET size == getModelSize(snapshot) IN
        /\ coreSpeciesCount' = Append(coreSpeciesCount, size[1])
        /\ coreReactionCount' = Append(coreReactionCount, size[2])
        /\ edgeSpeciesCount' = Append(edgeSpeciesCount, size[3])
        /\ edgeReactionCount' = Append(edgeReactionCount, size[4])
    /\ execTime' = Append(execTime, now)
    /\ memoryUse' = Append(memoryUse, 0)
    /\ restartSize' = Append(restartSize,
                             IF disk["restart.pkl.gz"].exists
                             THEN FileSize(disk["restart.pkl.gz"]) ELSE 0)
    /\ log' = Append(log, Call("statistics", 0, allTerminated, None))
    /\ pc' = "walltime"
    /\ UNCHANGED << error, processVars, reactionModel, thermo, k, disk, now, wallTime,
                    loopVars, loaded, snapshot, stopping >>
\* main.py:375-399
UpdateStatistics ==
    /\ pc = "statistics"
    /\ LET size == getModelSize(reactionModel) IN
        /\ coreSpeciesCount' = Append(coreSpeciesCount, size[1])
        /\ coreReactionCount' = Append(coreReactionCount, size[2])
        /\ edgeSpeciesCount' = Append(edgeSpeciesCount, size[3])
        /\ edgeReactionCount' = Append(edgeReactionCount, size[4])
    /\ execTime' = Append(execTime, now)
    /\ memoryUse' = Append(memoryUse, 0)
    /\ restartSize' = Append(restartSize,
                             IF disk["restart.pkl.gz"].exists
                             THEN FileSize(disk["restart.pkl.gz"]) ELSE 0)
    /\ log' = Append(log, Call("statistics", 0, allTerminated, None))
    /\ pc' = "walltime"
    /\ UNCHANGED << error, processVars, reactionModel, thermo, k, disk, now, wallTime,
                    loopVars, loaded, snapshot, stopping >>

ConsiderStopping_NoReturn ==
    /\ pc = "walltime"
    /\ stopping' = (stopping \/ WallTimeStop(wallTime, execTime))
    /\ pc' = "loop"
    /\ UNCHANGED << error, processVars, reactionModel, thermo, k, disk, now, wallTime, loopVars,
                    statistics, loaded, snapshot, log >>
\* main.py:405-416: the stop branch logs, reads the name reactionModel and returns
ConsiderStopping ==
    /\ pc = "walltime"
    /\ IF WallTimeStop(wallTime, execTime)
       THEN /\ stopping' = TRUE
            /\ IF Bound("reactionModel", ExecuteLocals)
               THEN pc' = "returned" /\ error' = error
               ELSE pc' = "failed" /\ error' = "NameError"
       ELSE /\ pc' = "loop"
            /\ UNCHANGED << error, stopping >>
    /\ UNCHANGED << processVars, reactionModel, thermo, k, disk, now, wallTime, loopVars,
                    statistics, loaded, snapshot, log >>

\* main.py:286 and 418-428: the loop condition fails, the job is reported complete
Complete ==
    /\ pc = "loop"
    /\ done
    /\ pc' = "completed"
    /\ UNCHANGED << error, processVars, reactionModel, thermo, k, disk, now, wallTime,
                    loopVars, statistics, loaded, snapshot, log, stopping >>

(***************************************************************************)
(* The environment of the job                                              *)
(***************************************************************************)
Ended == pc \in {"completed", "returned", "failed"}

\* the user copies the checkpoint to the path loadRestartFile is given
ProvideCheckpoint ==
    /\ Ended
    /\ disk["restart.pkl"].exists
    /\ disk["restart.pkl.gz"] # disk["restart.pkl"]
    /\ disk' = [disk EXCEPT !["restart.pkl.gz"] = disk["restart.pkl"]]
    /\ UNCHANGED << pc, error, processVars, reactionModel, thermo, k, now, wallTime,
                    loopVars, statistics, loaded, snapshot, log, stopping >>

\* the user runs RMG again in the same output directory, asking it to restart
\* from the checkpoint; the files keep their age
ResumeJob ==
    /\ Ended
    /\ pc' = "start"
    /\ error' = "None"
    /\ args' \in [restart : {TRUE}, walltime : WallTimes]
    /\ input' \in [seedMechanisms : SeedMechanismInputs,
                   reactionLibraries : ReactionLibraryInputs,
                   saveRestartPeriod : SaveRestartPeriods]
    /\ database' \in Databases
    /\ reactionModel' = EmptyModel
    /\ thermo' = {}
    /\ k' = 1
    /\ now' = 0
    /\ wallTime' = 0
    /\ done' = FALSE
    /\ allTerminated' = TRUE
    /\ objectsToEnlarge' = << >>
    /\ execTime' = << >>
    /\ coreSpeciesCount' = << >>
    /\ coreReactionCount' = << >>
    /\ edgeSpeciesCount' = << >>
    /\ edgeReactionCount' = << >>
    /\ memoryUse' = << >>
    /\ restartSize' = << >>
    /\ loaded' = NotLoaded
    /\ snapshot' = EmptyModel
    /\ log' = << >>
    /\ stopping' = FALSE
    /\ disk' = [p \in Paths |->
                  IF disk[p].exists THEN [disk[p] EXCEPT !.mtime = disk[p].mtime - now]
                  ELSE NoFile]

Next ==
    \/ SetWallTime
    \/ LoadRestart
    \/ SeedMechanisms
    \/ ReactionLibraries
    \/ EnlargeInert
    \/ GenerateThermoData
    \/ EnlargeReactive
    \/ SaveInitialRestart
    \/ BeginIteration
    \/ Simulate
    \/ Prune
    \/ Enlarge
    \/ Persist
    \/ UpdateStatistics
    \/ ConsiderStopping
    \/ Complete
    \/ ProvideCheckpoint
    \/ ResumeJob

Spec == Init /\ [][Next]_vars

\* a step of execute: every step but those of the user
Execute ==
    \/ SetWallTime
    \/ LoadRestart
    \/ SeedMechanisms
    \/ ReactionLibraries
    \/ EnlargeInert
    \/ GenerateThermoData
    \/ EnlargeReactive
    \/ SaveInitialRestart
    \/ BeginIteration
    \/ Simulate
    \/ Prune
    \/ Enlarge
    \/ Persist
    \/ UpdateStatistics
    \/ ConsiderStopping
    \/ Complete
\* one process, given one of the wall times the main loop is run with, in an
\* empty output directory
OneProcess == Init /\ args.walltime \in WallTimes
\* execute is one thread that nothing holds up: every call it makes returns,
\* so the step it is at is eventually taken
FairSpec == OneProcess /\ [][Execute]_vars /\ WF_vars(Execute)

(***************************************************************************)
(* A reaction system that breaks the contract of simulate: the flagged     *)
(* object it returns is neither a species nor a network.                   *)
(***************************************************************************)
\* main.py:294-329, one pass of the for loop: the object is true at 322, is not
\* a PDepNetwork at 323, and is appended as it is at 328.  The contract is
\* broken in the first iteration only, which keeps the number of iterations
\* finite when enlarge leaves the model alone.
SimulateUnrecognised ==
    /\ pc = "simulate"
    /\ execTime = << >>
    /\ \E terminated \in BOOLEAN :
        /\ allTerminated' = (allTerminated /\ terminated)
        /\ objectsToEnlarge' = Append(objectsToEnlarge, Resolve(reactionModel, k, Other))
        /\ done' = DoneAfter(done, Other)
        /\ log' = Append(log, Call("simulate", k, terminated, Other))
        /\ pc' = IF k < NSystems THEN "simulate"
                 ELSE IF DoneAfter(done, Other) THEN "persist" ELSE "grow1"
    /\ k' = IF k < NSystems THEN k + 1 ELSE 0
    /\ UNCHANGED << error, processVars, reactionModel, thermo, disk, now, wallTime,
                    statistics, loaded, snapshot, stopping >>

\* main.py:344-346, one pass of the for loop, the object being the unrecognised
\* one: it is given to enlarge, which either raises or leaves the model alone
EnlargeUnrecognised ==
    /\ Phase(pc) = "enlarge"
    /\ \E objects \in (IF k = 0 THEN Dedup(objectsToEnlarge) ELSE {objectsToEnlarge}) :
        LET i == IF k = 0 THEN 1 ELSE k IN
        /\ objects[i] = Other
        /\ objectsToEnlarge' = objects
        /\ log' = Append(log, Call("enlarge", 0, allTerminated, objects[i]))
        /\ \E raised \in BOOLEAN :
             IF raised
             THEN /\ error' = "TypeError"
                  /\ pc' = "failed"
                  /\ k' = i
             ELSE /\ error' = error
                  /\ k' = IF i < Len(objects) THEN i + 1 ELSE 0
                  /\ pc' = IF i < Len(objects) THEN pc ELSE NextPhase(pc)
    /\ UNCHANGED << processVars, reactionModel, thermo, disk, now, wallTime, done,
                    allTerminated, statistics, loaded, snapshot, stopping >>

NextUnrecognised ==
    \/ Next
    \/ SimulateUnrecognised
    \/ EnlargeUnrecognised

SpecUnrecognised == Init /\ [][NextUnrecognised]_vars

(***************************************************************************)
(* Properties                                                              *)
(***************************************************************************)
\* the calls of the current iteration
Calls(op) == {i \in 1..Len(log) : log[i].op = op}
SimCalls == {log[i] : i \in Calls("simulate")}
\* every reaction system has been simulated in the current iteration
AllSimulated == Cardinality(Calls("simulate")) = NSystems
NoneFlagged == \A c \in SimCalls : c.obj = None
EveryTerminated == \A c \in SimCalls : c.terminated
\* what the simulations of the current iteration put in objectsToEnlarge
FlaggedObjects == {Resolve(snapshot, c.sys, c.obj) : c \in {d \in SimCalls : d.obj # None}}
EnlargeCalls(obj) == {i \in Calls("enlarge") : log[i].obj = obj}
\* the `if not done` block of the current iteration is over
GrowthOver == AllSimulated /\ ~done /\ pc \notin {"grow1", "grow2"}

\* C1, as claimed: once every reaction system of an iteration has been
\* simulated, done holds iff every simulate call returned terminated = true
\* and no flagged object.
C1_DoneIffTerminatedAndNoFlag ==
    AllSimulated => (done <=> (EveryTerminated /\ NoneFlagged))

\* C1, amended: once every reaction system of an iteration has been simulated,
\* done holds iff no simulate call of the iteration returned a flagged object,
\* whatever the calls returned as terminated; a converged iteration calls
\* neither prune nor enlarge, and the job is reported complete only from a
\* converged iteration.
C1_DoneIffNoFlag ==
    /\ AllSimulated => (done <=> NoneFlagged)
    /\ (AllSimulated /\ done) => (Calls("prune") = {} /\ Calls("enlarge") = {})
    /\ (AllSimulated /\ EveryTerminated /\ NoneFlagged) => done
    /\ pc = "completed" => (done /\ AllSimulated /\ NoneFlagged)

\* C1 witness: a job completed from an iteration in which a reaction system
\* returned terminated = false and nothing was flagged.
C1_Witness ==
    /\ pc = "completed"
    /\ \E c \in SimCalls : ~c.terminated
    /\ NoneFlagged

\* C2: prune is called at most once per iteration, and only when every
\* simulate call of that iteration returned terminated = true.
C2_PruneOnlyIfAllTerminated ==
    /\ Cardinality(Calls("prune")) <= 1
    /\ Calls("prune") # {} => (AllSimulated /\ EveryTerminated)
    /\ (AllSimulated /\ ~EveryTerminated) => Calls("prune") = {}

\* C2 witness: an iteration that pruned, and whose simulations flagged an object.
C2_Witness ==
    /\ Calls("prune") # {}
    /\ ~NoneFlagged
    /\ EveryTerminated

\* C3: a prune call is made before any enlarge call of its iteration, on the
\* reaction model the iteration began with.
C3_PruneBeforeEnlarge ==
    [][(Len(log') = Len(log) + 1 /\ log'[Len(log')].op = "prune")
         => (Calls("enlarge") = {} /\ reactionModel = snapshot)]_vars

\* C3 witness: an iteration with a prune call followed by an enlarge call that
\* changed the reaction model.
C3_Witness ==
    /\ \E i \in Calls("prune") : \E j \in Calls("enlarge") : i < j
    /\ reactionModel.core # snapshot.core

Called(op) == Len(log') = Len(log) + 1 /\ log'[Len(log')].op = op

\* C5: within a job, no step takes a species out of the core; a step other
\* than a prune call takes no species out of the union of core and edge, and a
\* prune call only takes species out of the edge.  So the core an iteration
\* began with is always part of the core, and while the iteration has not
\* pruned, the core and edge it began with are part of the union.
C5_MonotonicGrowth ==
    /\ [](/\ snapshot.core \subseteq reactionModel.core
          /\ Calls("prune") = {} =>
               (snapshot.core \cup snapshot.edge)
                   \subseteq (reactionModel.core \cup reactionModel.edge))
    /\ [][pc' # "start" =>
            /\ reactionModel.core \subseteq reactionModel'.core
            /\ ~Called("prune") =>
                 (reactionModel.core \cup reactionModel.edge)
                     \subseteq (reactionModel'.core \cup reactionModel'.edge)
            /\ Called("prune") =>
                 (reactionModel'.core = reactionModel.core
                    /\ reactionModel'.edge \subseteq reactionModel.edge)]_vars

\* C5 witness: an iteration whose prune removed an edge species for good while
\* its enlarge calls made the core grow.
C5_Witness ==
    /\ GrowthOver
    /\ Calls("prune") # {}
    /\ ~((snapshot.core \cup snapshot.edge) \subseteq (reactionModel.core \cup reactionModel.edge))
    /\ snapshot.core # reactionModel.core

\* the wall-time rule, on the recorded elapsed times
OverBudget ==
    /\ wallTime > 0
    /\ Len(execTime) >= 2
    /\ execTime[Len(execTime)] + 3 * (execTime[Len(execTime)] - execTime[Len(execTime) - 1])
         > wallTime

\* C6: once the check that follows the statistics of an iteration is made, the
\* loop has been stopped for wall time iff the budget is positive, at least two
\* iterations are recorded and t + 3 * dt > budget.
C6_WallTimeRule ==
    pc # "walltime" => (stopping <=> OverBudget)

\* C6 witness: budget 18; after elapsed times 10 and 12 the loop went on
\* (12 + 3 * 2 = 18 is not above the budget), after 14 it was stopped
\* (14 + 3 * 2 = 20).
C6_Witness ==
    /\ wallTime = 18
    /\ execTime = << 10, 12, 14 >>
    /\ stopping

\* C7, as claimed: when the wall-time rule stops the loop, execute returns
\* without an error.
C7_StopReturnsNormally ==
    (stopping /\ pc # "walltime") => (pc = "returned" /\ error = "None")

\* C8: the wall-time stop is decided right after the statistics of a finished
\* iteration (every system simulated, every flagged object enlarged, the
\* output saved), and from then on the job calls nothing and changes neither
\* the reaction model nor the checkpoint file.
C8_StopBetweenIterations ==
    [][/\ (~stopping /\ stopping') =>
            /\ pc = "walltime"
            /\ AllSimulated
            /\ log[Len(log)].op = "statistics"
            /\ Calls("saveOutput") # {}
            /\ \A obj \in FlaggedObjects : Cardinality(EnlargeCalls(obj)) = 1
            /\ reactionModel' = reactionModel
            /\ disk' = disk
       /\ (stopping /\ stopping') =>
            /\ reactionModel' = reactionModel
            /\ disk'["restart.pkl"] = disk["restart.pkl"]
            /\ log' = log
            /\ pc' = pc]_vars

\* C8 witness: a job stopped for wall time whose last iteration enlarged.
C8_Witness ==
    /\ stopping
    /\ pc # "walltime"
    /\ Calls("enlarge") # {}

\* C9, as claimed: a job that was asked to restart while a checkpoint written
\* by saveRestartFile is in the output directory goes on with the reaction
\* model of that checkpoint.
C9_ResumeFromCheckpoint ==
    (args.restart /\ disk["restart.pkl"].exists /\ pc \notin {"start", "init"}) =>
        /\ pc # "failed"
        /\ reactionModel.core = disk["restart.pkl"].content.core
        /\ reactionModel.edge = disk["restart.pkl"].content.edge

\* the checkpoint loadRestartFile unpickled has all its families in the database
FamiliesKnown(rm) ==
    \A family0 \in DOMAIN rm.reactionDict : MatchingFamily(family0) # NoFamily

\* C10, as claimed: loadRestartFile, called on a readable checkpoint whose
\* families are all in the loaded database, leaves a reaction index keyed by
\* the database's family objects, with every reaction in it, and the reverse of
\* every reaction that has one, referring to the database's family of the
\* same label.
C10_FamiliesRepointed ==
    (loaded.status \notin {"not called", "IOError"} /\ FamiliesKnown(loaded.reactionModel)) =>
        /\ loaded.status = "ok"
        /\ DOMAIN loaded.reactionModel.reactionDict \subseteq DatabaseFamilies
        /\ \A f \in DOMAIN loaded.reactionModel.reactionDict :
              \A rxn \in loaded.reactionModel.reactionDict[f] :
                 /\ rxn.family = f
                 /\ rxn.family.label = LabelOf(rxn.reactants)
                 /\ rxn.reverse # NoFamily => rxn.reverse = rxn.family

\* loadRestartFile has unpickled a checkpoint and ended
LoadEnded == loaded.status \notin {"not called", "IOError"}

\* C11, as claimed: once loadRestartFile has been through a readable
\* checkpoint, every conversion criterion of the job and every key of every
\* reaction system's initial mole fractions is a species owned by the restored
\* model, the same species as before the load, with the same mole fraction.
C11_ReferencesRebound ==
    LoadEnded =>
        /\ {spec.spec : spec \in loaded.termination} = {spec.spec : spec \in termination}
        /\ \A spec \in loaded.termination : spec.owner = "model"
        /\ \A i \in Systems :
              /\ {spec.spec : spec \in DOMAIN loaded.initialMoleFractions[i]}
                    = {spec0.spec : spec0 \in DOMAIN initialMoleFractions[i]}
              /\ \A spec \in DOMAIN loaded.initialMoleFractions[i] :
                    /\ spec.owner = "model"
                    /\ loaded.initialMoleFractions[i][spec]
                          = initialMoleFractions[i][InputSpecies(spec.spec)]

\* C12: when the checkpoint that loadRestartFile unpickled has, among the keys
\* of its reaction index, a family whose label no family of the loaded
\* database has, loadRestartFile ends with an error, execute ends with that
\* error, and the job makes no simulate call and records no iteration.
C12_MissingFamilyIsFatal ==
    (LoadEnded /\ ~FamiliesKnown(loaded.reactionModel)) =>
        /\ loaded.status # "ok"
        /\ pc = "failed"
        /\ error = loaded.status
        /\ log = << >>
        /\ execTime = << >>

\* C12 witness: a restarted job whose database lacks Disproportionation, ended
\* by the load of a checkpoint that has a Disproportionation reaction.
C12_Witness ==
    /\ LoadEnded
    /\ Family("Disproportionation", "pickled") \in DOMAIN loaded.reactionModel.reactionDict
    /\ database = {Family("H_Abstraction", "database")}
    /\ pc = "failed"

\* the step calls saveRestartFile from the main loop (main.py:373)
SaveCalled == Len(log') > Len(log) /\ log'[Len(log')].op = "saveRestartFile"
\* the step calls saveRestartFile after the seeding (main.py:273)
InitialSaveCalled == pc = "reactive" /\ pc' = "loop" /\ input.saveRestartPeriod.given
\* the step leaves in restart.pkl the reaction model as it is, written now
Written ==
    disk'["restart.pkl"] = [exists |-> TRUE, content |-> Pickle(reactionModel), mtime |-> now]
\* the age of restart.pkl
Age == now - disk["restart.pkl"].mtime

\* C13: a call of saveRestartFile leaves the files as they are when restart.pkl
\* exists and its age is less than delay, and otherwise writes the reaction
\* model; with delay 0 it writes.  A write made in an iteration that is not the
\* final one comes at least the restart period after the write before it.
C13_SaveSkipRule ==
    [][/\ SaveCalled =>
            LET delay == IF done THEN 0 ELSE input.saveRestartPeriod.value IN
            /\ (disk["restart.pkl"].exists /\ Age < delay) => disk' = disk
            /\ ~(disk["restart.pkl"].exists /\ Age < delay) => Written
            /\ delay = 0 => Written
            /\ (~done /\ disk["restart.pkl"].exists /\ disk' # disk) =>
                   Age >= input.saveRestartPeriod.value
       /\ InitialSaveCalled => Written]_vars

\* C13 witness: restart period 10; the checkpoint written after the seeding at
\* time 0 was replaced by the iteration that ended at 10 (age 10), and that
\* one was kept by the iteration that ended at 12 (age 2), a save call having
\* been made in it.
C13_Witness ==
    /\ input.saveRestartPeriod = Period(10)
    /\ execTime = << 10 >>
    /\ now = 12
    /\ ~done
    /\ pc = "statistics"
    /\ Calls("saveRestartFile") # {}
    /\ disk["restart.pkl"].mtime = 10
    /\ disk["restart.pkl"].content # Pickle(reactionModel)

\* the current iteration has saved its output files and been through the
\* restart-file statement (main.py:372-373)
PersistOver == Calls("saveOutput") # {}

\* C14: the iteration in which the job converges calls saveRestartFile and
\* leaves in restart.pkl its final model, written in that iteration, with or
\* without a restart period and whatever the age of the file was; any other
\* iteration calls saveRestartFile iff a restart period is configured, and
\* then either writes its model or keeps a file younger than the period.
C14_FinalSaveForced ==
    /\ (PersistOver /\ done) =>
          /\ Calls("saveRestartFile") # {}
          /\ disk["restart.pkl"] =
                [exists |-> TRUE, content |-> Pickle(reactionModel), mtime |-> now]
    /\ (PersistOver /\ ~done) =>
          /\ Calls("saveRestartFile") # {} <=> input.saveRestartPeriod.given
          /\ input.saveRestartPeriod.given =>
                /\ disk["restart.pkl"].exists
                /\ IF disk["restart.pkl"].mtime = now
                   THEN disk["restart.pkl"].content = Pickle(reactionModel)
                   ELSE Age < input.saveRestartPeriod.value

\* C14 witness: restart period 10; the job converged in the iteration that
\* ended at 12 and wrote its checkpoint, 2 after the write of the iteration
\* before.
C14_Witness ==
    /\ input.saveRestartPeriod = Period(10)
    /\ execTime = << 10, 12 >>
    /\ pc = "completed"
    /\ disk["restart.pkl"].mtime = 12
    /\ snapshot # EmptyModel

\* the species of the input file
InitialSpeciesSet == {initialSpecies[i].spec : i \in 1..Len(initialSpecies)}
\* the job did not restart and is in its first iteration, before the restart-
\* file statement of the loop
FirstIteration ==
    /\ ~args.restart
    /\ execTime = << >>
    /\ pc \in {"simulate", "grow1", "grow2", "persist"}

\* C15, as claimed: a job that does not restart has written a checkpoint of the
\* seeded model when its first simulate call is made.
C15_InitialCheckpointWritten ==
    FirstIteration =>
        /\ disk["restart.pkl"].exists
        /\ disk["restart.pkl"].content = Pickle(snapshot)

\* C15, amended: in a job that does not restart and has a restart period
\* configured, the seeded model (every initial species in the core) is in
\* restart.pkl when the seeding is over and stays there until the restart-file
\* statement of the first iteration; without a restart period the step after
\* the seeding writes nothing.
C15_InitialCheckpointIfPeriod ==
    /\ []((FirstIteration /\ input.saveRestartPeriod.given) =>
             /\ disk["restart.pkl"].exists
             /\ disk["restart.pkl"].content = Pickle(snapshot)
             /\ disk["restart.pkl"].mtime < now
             /\ InitialSpeciesSet \subseteq snapshot.core)
    /\ [][(pc = "reactive" /\ pc' = "loop") =>
            IF input.saveRestartPeriod.given THEN Written ELSE disk' = disk]_vars

\* C15 witness: the first simulate call of a job with a restart period, the
\* checkpoint holding the seeded model with an edge.
C15_Witness ==
    /\ FirstIteration
    /\ input.saveRestartPeriod.given
    /\ pc = "simulate"
    /\ k = 1
    /\ disk["restart.pkl"].content = Pickle(reactionModel)
    /\ reactionModel.edge # {}

\* the species of the seed mechanisms and of the reaction libraries of the input
SeedSpecies == UNION Range(input.seedMechanisms)
LibrarySpecies == UNION Range(input.reactionLibraries)
InertInitial == {initialSpecies[i].spec : i \in {j \in 1..Len(initialSpecies) : ~initialSpecies[j].reactive}}
\* the initial species that the for loop execute is in has been through
Passed(reactive) ==
    {initialSpecies[i].spec :
        i \in {j \in 1..Len(initialSpecies) : j < k /\ initialSpecies[j].reactive = reactive}}

C17_RestartSkipsSeeding ==
    /\ [](args.restart =>
             /\ pc \notin {"libraries", "inert", "reactive"}
             /\ thermo = {}
             /\ (pc \notin {"start", "init"} /\ error # "ValueError") => loaded # NotLoaded)
    /\ [][(loaded' # loaded /\ pc' # "start") =>
             /\ args.restart
             /\ loaded = NotLoaded
             /\ pc = "init"
             /\ execTime = << >>
             /\ log = << >>]_vars

\* C17 witness: a restarted job that unpickled the checkpoint it was given, with
\* no species seeded and no thermo data generated.
C17_Witness ==
    /\ args.restart
    /\ LoadEnded
    /\ loaded.reactionModel.core # {}
    /\ reactionModel = EmptyModel
    /\ thermo = {}

\* new is old with one more entry
Extends(new, old) == Len(new) = Len(old) + 1 /\ SubSeq(new, 1, Len(old)) = old
SeriesLengths ==
    {Len(execTime), Len(coreSpeciesCount), Len(coreReactionCount), Len(edgeSpeciesCount),
     Len(edgeReactionCount), Len(memoryUse), Len(restartSize)}

\* C18: the seven series always have the same length.  Every iteration records
\* once: the statistics step comes once per iteration, after the iteration's
\* simulations and its output, also in the iteration that converges and in
\* the one after which the job is stopped for wall time; it appends one entry
\* to each series and leaves the earlier entries as they are, and no other
\* step of the job changes a series.  The sizes it records are those of the
\* reaction model after the iteration's prune and enlarge calls.
C18_TelemetryAligned ==
    /\ [](/\ Cardinality(SeriesLengths) = 1
          /\ Cardinality(Calls("statistics")) <= 1
          /\ (pc = "walltime" \/ pc = "completed" \/ stopping) => Calls("statistics") # {}
          /\ Calls("statistics") # {} =>
                /\ Len(execTime) >= 1
                /\ << Last(coreSpeciesCount), Last(coreReactionCount),
                      Last(edgeSpeciesCount), Last(edgeReactionCount) >>
                      = getModelSize(reactionModel)
                /\ Last(execTime) = now)
    /\ [][pc' # "start" =>
            IF Called("statistics")
            THEN /\ AllSimulated
                 /\ PersistOver
                 /\ Calls("statistics") = {}
                 /\ Extends(execTime', execTime)
                 /\ Extends(coreSpeciesCount', coreSpeciesCount)
                 /\ Extends(coreReactionCount', coreReactionCount)
                 /\ Extends(edgeSpeciesCount', edgeSpeciesCount)
                 /\ Extends(edgeReactionCount', edgeReactionCount)
                 /\ Extends(memoryUse', memoryUse)
                 /\ Extends(restartSize', restartSize)
            ELSE statistics' = statistics]_vars

\* C18 witness: a job that converged in its third iteration, the core having
\* grown in the first two.
C18_Witness ==
    /\ pc = "completed"
    /\ coreSpeciesCount = << 3, 4, 4 >>
    /\ Len(restartSize) = 3

\* C19, as claimed: the checkpoint size an iteration records is 0 when
\* saveRestartFile has written no checkpoint so far, and otherwise the size of
\* the checkpoint file that saveRestartFile wrote.
C19_RestartSizeRecorded ==
    Calls("statistics") # {} =>
        Last(restartSize) = IF disk["restart.pkl"].exists
                            THEN FileSize(disk["restart.pkl"])
                            ELSE 0

\* the simulate calls of the current iteration that returned terminated = false
\* with a flagged species
Interrupted == {c \in SimCalls : ~c.terminated /\ c.obj.type = "Species"}

\* C20: an iteration in which a simulate call returned terminated = false with
\* a flagged species S makes no prune call and, when its enlargement is over,
\* has made one enlarge call for S and has S in the core; the iteration that
\* begins next starts from that reaction model, S in its core, and all its
\* simulate calls are made on the model it began with.
C20_InterruptedSpeciesPromoted ==
    /\ [](/\ Interrupted # {} => Calls("prune") = {}
          /\ GrowthOver =>
                \A c \in Interrupted :
                   /\ Cardinality(EnlargeCalls(c.obj)) = 1
                   /\ c.obj.spec \in reactionModel.core
          /\ pc = "simulate" => reactionModel = snapshot)
    /\ [][(pc = "loop" /\ pc' = "simulate") =>
            /\ snapshot' = reactionModel
            /\ \A c \in Interrupted : c.obj.spec \in snapshot'.core]_vars

\* C20 witness: the first reaction system returned terminated = false with
\* species 3, the second one terminated; the iteration is over with 3 in the
\* core, and the loop goes on.
C20_Witness ==
    /\ pc = "loop"
    /\ ~done
    /\ \E c \in Interrupted : c.sys = 1 /\ c.obj = SpeciesObj(3)
    /\ \E c \in SimCalls : c.sys = NSystems /\ c.terminated
    /\ 3 \in reactionModel.core \ snapshot.core

\* the job is in an iteration of the main loop
InIteration == pc \in {"simulate", "grow1", "grow2", "persist", "statistics", "walltime"}

\* C21: while the reaction systems of an iteration are being simulated, the
\* reaction model is the one the iteration began with and no prune or enlarge
\* call has been made; within an iteration the reaction model changes only in
\* a prune or an enlarge call, made after every reaction system has been
\* simulated.
C21_SimulationsShareSnapshot ==
    /\ [](pc = "simulate" =>
             /\ reactionModel = snapshot
             /\ Calls("prune") = {}
             /\ Calls("enlarge") = {})
    /\ [][(InIteration /\ (reactionModel' # reactionModel \/ Called("prune") \/ Called("enlarge"))) =>
             /\ AllSimulated
             /\ pc \in {"grow1", "grow2"}
             /\ Called("prune") \/ Called("enlarge")]_vars

\* C21 witness: the last reaction system is about to be simulated, an earlier
\* one having flagged a species that is still on the edge.
C21_Witness ==
    /\ pc = "simulate"
    /\ k = NSystems
    /\ \E c \in SimCalls : c.obj.type = "Species" /\ c.obj.spec \in reactionModel.edge
    /\ reactionModel = snapshot

\* the orders in which the reaction systems can be taken
Orders == {order \in [1..NSystems -> Systems] : Range(order) = Systems}
\* what simulate returned for each reaction system in the current iteration
Results == [i \in Systems |-> CHOOSE c \in SimCalls : c.sys = i]
\* the decisions of an iteration that takes the reaction systems in the given
\* order: done, whether to prune, and the objects to enlarge
Decisions(m, order, results) ==
    LET after == SimulateAll(m, order, results, LoopStart) IN
    [done |-> after.done,
     prune |-> ~after.done /\ after.allTerminated,
     enlarged |-> IF after.done THEN {} ELSE Range(after.objectsToEnlarge)]

\* C22: when an iteration has come to save its output, what it decided (done),
\* whether it pruned and the set of objects it passed to enlarge are what the
\* loop over the reaction systems gives, from the model the iteration began
\* with and the results simulate returned, for every order in which the
\* reaction systems can be taken.
C22_OrderIndependent ==
    []((pc = "persist" /\ AllSimulated) =>
        LET results == Results
            decided == [done |-> done,
                        prune |-> Calls("prune") # {},
                        enlarged |-> {log[i].obj : i \in Calls("enlarge")}]
        IN  \A order \in Orders : Decisions(snapshot, order, results) = decided)

\* C22 witness: the first reaction system flagged the network without
\* terminating, the last one terminated and flagged a species; the iteration
\* has enlarged two objects.
C22_Witness ==
    /\ pc = "persist"
    /\ \E c \in SimCalls : c.sys = 1 /\ ~c.terminated /\ c.obj.type = "PDepNetwork"
    /\ \E c \in SimCalls : c.sys = NSystems /\ c.terminated /\ c.obj.type = "Species"
    /\ Cardinality(Calls("enlarge")) = 2

\* the simulate calls of the current iteration that returned the network
NetworkFlags == {c \in SimCalls : c.obj.type = "PDepNetwork"}
\* the pair of the network that c returned and of its maximum-leak species at
\* the temperature and pressure of the reaction system of c
LeakPair(c) == NetworkLeak(c.obj.net, getMaximumLeakSpecies(snapshot, c.sys))

\* C23: no enlarge call is given a bare network; an enlarge call given a pair
\* (network, species) is given the pair of a network that a simulate call of
\* the iteration returned with its maximum-leak species at the conditions of
\* the reaction system that returned it; and when the enlargement of the
\* iteration is over, each such pair has been passed to enlarge.
C23_NetworkPassedWithLeak ==
    [](/\ \A i \in Calls("enlarge") :
            /\ log[i].obj.type # "PDepNetwork"
            /\ log[i].obj.type = "tuple" => \E c \in NetworkFlags : log[i].obj = LeakPair(c)
       /\ GrowthOver => \A c \in NetworkFlags : EnlargeCalls(LeakPair(c)) # {})

\* C23 witness: with species 3 and 4 on the edge, the second reaction system
\* returned the network, whose maximum-leak species at its conditions is 4
\* (3 at those of the first), and the pair (network, 4) has been enlarged.
C23_Witness ==
    /\ GrowthOver
    /\ snapshot.edge = {3, 4}
    /\ \E c \in NetworkFlags : c.sys = 2
    /\ getMaximumLeakSpecies(snapshot, 1) = 3
    /\ EnlargeCalls(NetworkLeak(1, 4)) # {}
    /\ 4 \in reactionModel.core

\* C24, as claimed: once a simulate call of the iteration has returned an
\* object that is neither a species nor a network, that object is not given
\* to enlarge, and the job does not get past the simulations otherwise than by
\* ending with an error.
C24_UnrecognisedIsFatal ==
    (\E c \in SimCalls : c.obj = Other) =>
        /\ \A i \in Calls("enlarge") : log[i].obj # Other
        /\ pc \notin {"simulate", "grow1", "grow2"} => (pc = "failed" /\ error # "None")

\* The budget a wall time stands for, read off its characters: a digit counts
\* for its decimal place in its field, and a field for seconds, minutes,
\* hours or days by the number of colons after it.
ColonsAfter(text, i) == Cardinality({j \in (i + 1)..Len(text) : text[j] = Colon})
PlacesAfter(text, i) ==
    Cardinality({j \in (i + 1)..Len(text) : \A m \in (i + 1)..j : text[m] # Colon})
FieldWeight == << 1, 60, 3600, 86400 >>
RECURSIVE Pow10(_)
Pow10(n) == IF n = 0 THEN 1 ELSE 10 * Pow10(n - 1)
RECURSIVE BudgetFrom(_, _)
BudgetFrom(text, i) ==
    IF i > Len(text) THEN 0
    ELSE (IF text[i] = Colon THEN 0
          ELSE DigitValue(text[i]) * Pow10(PlacesAfter(text, i))
                   * FieldWeight[ColonsAfter(text, i) + 1])
         + BudgetFrom(text, i + 1)
Budget(text) == BudgetFrom(text, 1)

\* one to four fields between colons, each of one digit or more
WellFormed(text) ==
    /\ Len(text) > 0
    /\ \A i \in 1..Len(text) : text[i] = Colon \/ text[i] \in Range(DigitChars)
    /\ text[1] # Colon /\ text[Len(text)] # Colon
    /\ \A i \in 1..(Len(text) - 1) : ~(text[i] = Colon /\ text[i + 1] = Colon)
    /\ ColonsAfter(text, 0) <= 3
WallTimeParsed == pc # "start"

\* C25: once the wall time is parsed, a given text of one to four integer
\* fields has made self.wallTime seconds + 60*minutes + 3600*hours +
\* 86400*days, the last field being the seconds and absent leading fields
\* counting for nothing; the text '0' of an option that was not given has made
\* it 0; and a job whose budget is 0 never takes the wall-time stop.
C25_WallTimeBudget ==
    /\ (WallTimeParsed /\ args.walltime.kind = "list" /\ WellFormed(args.walltime.text)) =>
            /\ wallTime = Budget(args.walltime.text)
            /\ error # "ValueError"
    /\ (WallTimeParsed /\ args.walltime = DefaultWallTime) => wallTime = 0
    /\ wallTime = 0 => ~stopping

\* a text of three fields is parsed: 18 minutes and 18 seconds
C25_Witness ==
    /\ WallTimeParsed
    /\ args.walltime = GivenWallTime(<< "0", Colon, "1", "8", Colon, "1", "8" >>)
    /\ wallTime = 1098

Malformed(walltime) == walltime.kind = "list" /\ ~WellFormed(walltime.text)
Untouched ==
    /\ reactionModel = EmptyModel
    /\ thermo = {}
    /\ loaded = NotLoaded
    /\ log = << >>
    /\ execTime = << >>

\* C26: a job given a wall time of more than four fields, or with a field that
\* is not an integer, fails with ValueError at the step that parses it, and
\* that step leaves the files alone; the job has then seeded nothing, loaded
\* no checkpoint, and simulated, pruned, enlarged and saved nothing.
C26_MalformedWallTimeIsFatal ==
    /\ [](Malformed(args.walltime) =>
            /\ Untouched
            /\ WallTimeParsed => (pc = "failed" /\ error = "ValueError"))
    /\ [][(Malformed(args.walltime) /\ ~WallTimeParsed) => (pc' = "failed" /\ disk' = disk)]_vars

\* a fresh job given the text 18: has failed
C26_Witness ==
    /\ ~args.restart
    /\ Malformed(args.walltime)
    /\ pc = "failed"
    /\ error = "ValueError"
    /\ Untouched

\* C27, as claimed: an iteration that converged is followed by the completion
\* path, whatever the budget, and the wall-time stop is taken only after an
\* iteration that did not converge.
C27_ConvergedCompletes ==
    /\ (done /\ ~InIteration) => (~stopping /\ pc \in {"loop", "completed"})
    /\ stopping => ~done

\* the enlarge calls given a pair of the network n, and those whose object
\* has s for species: the species itself, or a pair with s for leak species
NetworkCalls(n) == {i \in Calls("enlarge") : log[i].obj.type = "tuple" /\ log[i].obj.net = n}
TargetCalls(s) == {i \in Calls("enlarge") : log[i].obj.type # "None" /\ log[i].obj.spec = s}
Networks == {c.obj.net : c \in NetworkFlags}

\* C28, as claimed: in an iteration no network is in more than one enlarge
\* call, and no species is the species of more than one enlarge call.
C28_OncePerNetworkAndSpecies ==
    /\ \A n \in Networks : Cardinality(NetworkCalls(n)) <= 1
    /\ \A s \in Species : Cardinality(TargetCalls(s)) <= 1

\* C28, amended: in an iteration no two enlarge calls are given the same
\* object; a network is in as many enlarge calls, at most, as the reaction
\* systems that flagged it resolved distinct maximum-leak species for it; and
\* a species is the species of at most one call given the species itself and
\* of at most one call per flagged network, given the pair of that network and
\* the species.
C28_OncePerDistinctObject ==
    [](LET calls == Calls("enlarge")
           flags == NetworkFlags
       IN  /\ \A i \in calls : \A j \in calls : log[i].obj = log[j].obj => i = j
           /\ \A n \in {c.obj.net : c \in flags} :
                 Cardinality({i \in calls : log[i].obj.type = "tuple" /\ log[i].obj.net = n})
                     <= Cardinality({LeakPair(c).spec : c \in {d \in flags : d.obj.net = n}})
           /\ \A i \in calls :
                 Cardinality({j \in calls : log[j].obj.spec = log[i].obj.spec})
                     <= 1 + Cardinality({c.obj.net : c \in flags}))

\* C28 witness: the two reaction systems flagged the same network, its
\* maximum-leak species is 3 at the conditions of one and 4 at those of the
\* other, and the network has been enlarged with each.
C28_Witness ==
    /\ GrowthOver
    /\ \A c \in SimCalls : c.obj.type = "PDepNetwork"
    /\ EnlargeCalls(NetworkLeak(1, 3)) # {}
    /\ EnlargeCalls(NetworkLeak(1, 4)) # {}

\* execute is in its main loop
InLoop == pc = "loop" \/ InIteration
\* the species that are not in the core
Outside == Species \ reactionModel.core

\* C29: every simulate call returning and every flagged object being of a
\* species outside the core that enlarge puts into the core, an iteration that
\* did not converge ends with a core strictly larger than the one it began
\* with; the iterations recorded never outnumber the species that were outside
\* the core by more than one; and a job that is in its main loop eventually
\* leaves it, completed, stopped for wall time or failed.
C29_LoopTerminates ==
    /\ [][(pc = "statistics" /\ pc' = "walltime" /\ ~done) =>
            (snapshot.core \subseteq reactionModel.core /\ snapshot.core # reactionModel.core)]_vars
    /\ [](Len(execTime) + Cardinality(Outside) <= NSpecies + 1)
    /\ (InLoop ~> Ended)

\* C29 witness: the loop ran until no species was left outside the core, and
\* then converged
C29_Witness ==
    /\ pc = "completed"
    /\ Outside = {}
    /\ Len(execTime) >= 3

====
